---- MODULE Spec2Model ----
(***************************************************************************)
(* Lending visualization: the drip-feed hooks (static dataset and remote   *)
(* query), the globe animation orchestrator with its orbiting dot, the     *)
(* transaction feed, and the retrying query client.                        *)
(*                                                                         *)
(* React is modelled as it schedules function components: a setState call  *)
(* only queues an update; a later render applies the queued updates,       *)
(* refreshes the refs assigned in the component body and runs the effects  *)
(* whose dependencies changed (cleanup first).  Timer callbacks and calls  *)
(* of exported functions interleave freely with renders.                   *)
(***************************************************************************)
EXTENDS Integers, Sequences, FiniteSets, TLC

(* ---------------- bounds of the model ---------------- *)
MaxTx == 3
MaxInserted == 3
Warm == 48
WarmGlobe == 23
MaxEvents == 2
MaxBatch == 2
MaxFetch == 2
MaxFlags == 2
MaxRetryAfter == 2
MaxHighlights == 2
MaxResponse == 2

(* ---------------- program constants ---------------- *)
MAX_DISPLAYED_TRANSACTIONS == 50
MAX_TRANSACTIONS_GLOBE == 25
MAX_TRANSACTIONS_FEED == 50
INITIAL_TRANSACTIONS == 8
MAX_RETRIES == 3
RETRY_DELAY_MS == 1000
WALLET_SUFFIX == 8
TRAIL_LENGTH == 15
\* settle progress in hundredths: += 0.03 per tick until >= 1
SETTLE_STEP == 3
SETTLE_FULL == 100
lendingTransactionsLength == 49

(* ---------------- helpers ---------------- *)
NoTx == [id |-> 0, rec |-> 0]

Min(a, b) == IF a < b THEN a ELSE b

\* Array.prototype.slice(0, n)
\* a slice that keeps every element
Slice0M(s, n) == s

Slice0(s, n) == SubSeq(s, 1, Min(Len(s), n))

Reverse(s) == [i \in 1..Len(s) |-> s[Len(s) + 1 - i]]

VARIABLES
  app,          \* which composition of the repository is running
  warm,         \* cycles already completed in the initial state
  hook,         \* static hook: state as of the last render
  hookQ,        \* static hook: state with the queued updates applied
  pendingTxRef, \* static hook: pendingTxRef.current
  currentIndexRef, \* static hook: currentIndexRef.current
  drip,         \* static hook: the drip interval and the readyForNext it closed over
  mounted,      \* the owning component is mounted
  nextId,       \* source of fresh transaction ids
  pulled,       \* history: transactions returned by getNextTransaction since the last reset
  inserted,     \* history: transactions prepended to the displayed list since the last reset
  insertions,   \* number of insertions made since the initial state
  configured,   \* isAlliumConfigured(): an API key is present
  remote,       \* remote hook: state as of the last render
  remoteQ,      \* remote hook: state with the queued updates applied
  seenIdsRef,   \* remote hook: seenIdsRef.current
  queueRef,     \* remote hook: queueRef.current
  pollOn,       \* remote hook: number of active polling intervals
  dripR,        \* remote hook: number of active drip intervals, the isUsingMockData they closed over
  inflight,     \* remote hook: fetchFromAllium calls awaiting their result
  enqueued,     \* history: transactions appended to the queue
  dripped,      \* history: transactions taken from the queue by the drip
  globe,        \* GlobeVisualization: state as of the last render
  globeQ,       \* GlobeVisualization: state with the queued updates applied
  globeRef,     \* GlobeVisualization: pendingTxRef.current
  timers,       \* GlobeVisualization: outstanding setTimeout callbacks
  dot,          \* the OrbitingDot instance rendered for the pending transaction
  feed,         \* TransactionFeed: state as of the last render
  feedQ,        \* TransactionFeed: state with the queued updates applied
  feedTimers,   \* TransactionFeed: outstanding setTimeout callbacks
  client,       \* executeQuery: the call in progress
  now,          \* executeQuery: the clock, in ms
  call,         \* a function of the data layer under study and its arguments
  returned      \* the value that call returned, once it has returned

hookVars == <<hook, hookQ, pendingTxRef, currentIndexRef, drip, pulled>>
remoteVars == <<configured, remote, remoteQ, seenIdsRef, queueRef, pollOn, dripR,
                inflight, enqueued, dripped>>
globeVars == <<globe, globeQ, globeRef, timers, dot>>
feedVars == <<feed, feedQ, feedTimers>>
clientVars == <<client, now>>
callVars == <<call, returned>>
vars == <<app, warm, hookVars, mounted, nextId, inserted, insertions, remoteVars,
          globeVars, feedVars, clientVars, callVars>>

\* what the static hook never touches
notStatic == <<remoteVars, globeVars, feedVars, clientVars, callVars>>
\* what the remote hook never touches
notRemote == <<hookVars, globeVars, feedVars, clientVars, callVars>>
\* what the mock-driven globe never touches
notGlobe == <<hookVars, remoteVars, feedVars, clientVars, callVars>>
\* what the transaction feed never touches
notFeed == <<hookVars, remoteVars, globeVars, clientVars, callVars>>
\* what the query client never touches
notClient == <<app, warm, mounted, nextId, inserted, insertions, hookVars, remoteVars,
               globeVars, feedVars, callVars>>

(* ======================================================================= *)
(* Static-dataset useLendingData hook                                      *)
(* ======================================================================= *)

\* useState initial values; the mount effect has queued setIsLoading(false)
\* and the drip effect returned early because isLoading was true
HookConstructed ==
  /\ hook = [pendingTransaction |-> NoTx, displayedTransactions |-> <<>>,
             isLoading |-> TRUE, readyForNext |-> TRUE]
  /\ hookQ = [hook EXCEPT !.isLoading = FALSE]
  /\ pendingTxRef = NoTx
  /\ currentIndexRef = 0
  /\ drip = [on |-> FALSE, readyForNext |-> TRUE]
  /\ pulled = <<>>

\* a copy that keeps the id of the dataset record
NextTransactionM(i, n) == [id |-> i + 1, rec |-> i]

\* the transaction getNextTransaction returns when the index is i and the
\* fresh id is n: rec stands for the fields spread from lendingTransactions[i],
\* n for the token `tx-${Date.now()}-${random}`, a fresh one at every call
NextTransaction(i, n) == [id |-> n, rec |-> i]

\* the history of k pull/commit cycles from construction
CycleTx(k) == NextTransaction((k - 1) % lendingTransactionsLength, k)

\* the hook after k completed cycles and the render that follows the k-th
\* commit (which pulls transaction k+1 at once)
HookAfter(k) ==
  /\ hook = [pendingTransaction |-> NoTx,
             displayedTransactions |->
               Slice0([i \in 1..k |-> CycleTx(k + 1 - i)], MAX_DISPLAYED_TRANSACTIONS),
             isLoading |-> FALSE, readyForNext |-> TRUE]
  /\ hookQ = [hook EXCEPT !.pendingTransaction = CycleTx(k + 1),
                          !.readyForNext = FALSE]
  /\ pendingTxRef = NoTx
  /\ currentIndexRef = (k + 1) % lendingTransactionsLength
  /\ drip = [on |-> TRUE, readyForNext |-> TRUE]
  /\ pulled = [i \in 1..(k + 1) |-> CycleTx(i)]

\* getNextTransaction followed by setPendingTransaction / setReadyForNext(false)
Pull(q) ==
  /\ nextId <= warm + MaxTx + 1
  /\ currentIndexRef' = (currentIndexRef + 1) % lendingTransactionsLength
  /\ nextId' = nextId + 1
  /\ pulled' = Append(pulled, NextTransaction(currentIndexRef, nextId))
  /\ hookQ' = [q EXCEPT !.pendingTransaction = NextTransaction(currentIndexRef, nextId),
                        !.readyForNext = FALSE]

\* the dependencies of the drip effect differ between two renders
DripDepsChanged(old, new) ==
  \/ old.isLoading # new.isLoading
  \/ old.readyForNext # new.readyForNext
  \/ old.pendingTransaction # new.pendingTransaction

\* a render of the hook: queued updates become the rendered state, the body
\* refreshes pendingTxRef, the drip effect is cleaned up and run again when
\* its dependencies changed
HookRender ==
  /\ hook' = hookQ
  /\ pendingTxRef' = hookQ.pendingTransaction
  /\ IF DripDepsChanged(hook, hookQ)
     THEN IF hookQ.isLoading
          THEN /\ drip' = [on |-> FALSE, readyForNext |-> hookQ.readyForNext]
               /\ UNCHANGED <<hookQ, currentIndexRef, nextId, pulled>>
          ELSE /\ drip' = [on |-> TRUE, readyForNext |-> hookQ.readyForNext]
               /\ IF hookQ.readyForNext /\ hookQ.pendingTransaction = NoTx
                  THEN Pull(hookQ)
                  ELSE UNCHANGED <<hookQ, currentIndexRef, nextId, pulled>>
     ELSE UNCHANGED <<drip, hookQ, currentIndexRef, nextId, pulled>>

\* the owner re-renders
Render ==
  /\ app = "static" /\ mounted
  /\ hookQ # hook
  /\ HookRender
  /\ UNCHANGED <<app, warm, mounted, inserted, insertions, notStatic>>

\* the setInterval callback of the drip effect
DripTick ==
  /\ app \in {"static", "staticApp"}
  /\ drip.on
  /\ IF drip.readyForNext /\ pendingTxRef = NoTx
     THEN Pull(hookQ)
     ELSE UNCHANGED <<hookQ, currentIndexRef, nextId, pulled>>
  /\ UNCHANGED <<app, warm, hook, pendingTxRef, drip, mounted, inserted, insertions, notStatic>>

\* a commit that leaves the pending slot filled
CommitM(q, tx) ==
  [q EXCEPT
     !.displayedTransactions = Slice0(<<tx>> \o @, MAX_DISPLAYED_TRANSACTIONS),
     !.readyForNext = TRUE]

\* the three state updates of commitTransaction for the transaction tx
Commit(q, tx) ==
  [q EXCEPT
     !.displayedTransactions = Slice0(<<tx>> \o @, MAX_DISPLAYED_TRANSACTIONS),
     !.pendingTransaction = NoTx,
     !.readyForNext = TRUE]

\* commitTransaction()
CommitTransaction ==
  /\ app = "static" /\ mounted
  /\ IF pendingTxRef # NoTx
     THEN /\ insertions < MaxInserted
          /\ insertions' = insertions + 1
          /\ hookQ' = Commit(hookQ, pendingTxRef)
          /\ inserted' = Append(inserted, pendingTxRef)
     ELSE UNCHANGED <<hookQ, inserted, insertions>>
  /\ UNCHANGED <<app, warm, hook, pendingTxRef, currentIndexRef, drip, mounted, nextId, pulled, notStatic>>

\* a refetch that leaves the cycle index where it is
RefetchM ==
  /\ app = "static" /\ mounted
  /\ hookQ' = [pendingTransaction |-> NoTx, displayedTransactions |-> <<>>,
               isLoading |-> FALSE, readyForNext |-> TRUE]
  /\ inserted' = <<>>
  /\ pulled' = <<>>
  /\ UNCHANGED <<app, warm, hook, pendingTxRef, currentIndexRef, drip, mounted,
                 nextId, insertions, notStatic>>

\* refetch()
Refetch ==
  /\ app = "static" /\ mounted
  /\ currentIndexRef' = 0
  /\ hookQ' = [pendingTransaction |-> NoTx, displayedTransactions |-> <<>>,
               isLoading |-> FALSE, readyForNext |-> TRUE]
  /\ inserted' = <<>>
  /\ pulled' = <<>>
  /\ UNCHANGED <<app, warm, hook, pendingTxRef, drip, mounted, nextId, insertions, notStatic>>

\* the owner unmounts: the drip effect's cleanup clears the interval
Unmount ==
  /\ app = "static" /\ mounted
  /\ mounted' = FALSE
  /\ drip' = [drip EXCEPT !.on = FALSE]
  /\ UNCHANGED <<app, warm, hook, hookQ, pendingTxRef, currentIndexRef, nextId, pulled, inserted, insertions, notStatic>>

(* ======================================================================= *)
(* Remote-query useLendingData hook                                        *)
(* ======================================================================= *)

\* the events the remote endpoint can return; transformEvent keeps the id
\* derived from the event and its block timestamp
EventTimestamp(i) == (i % 2) + 1
Events == {[id |-> 100 + i, timestamp |-> EventTimestamp(i)] : i \in 1..MaxEvents}
Batches == UNION {[1..n -> Events] : n \in 0..MaxBatch}

\* the compositions that run the remote hook
RemoteApps == {"remote", "remoteApp"}

\* generateTransaction(): a synthetic transaction with a fresh id
MockTransaction(n) == [id |-> n, timestamp |-> 0]

\* Array.prototype.filter
RECURSIVE Filter(_, _)
Filter(s, keep) ==
  IF s = <<>> THEN <<>>
  ELSE (IF Head(s).id \in keep THEN <<Head(s)>> ELSE <<>>) \o Filter(Tail(s), keep)

\* insertion of x behind every element that does not come after it
RECURSIVE InsertByTimestamp(_, _)
InsertByTimestamp(s, x) ==
  IF s = <<>> THEN <<x>>
  ELSE IF Head(s).timestamp <= x.timestamp
       THEN <<Head(s)>> \o InsertByTimestamp(Tail(s), x)
       ELSE <<x>> \o s

\* [...newTransactions].sort((a, b) => a.timestamp - b.timestamp), stable
RECURSIVE SortByTimestamp(_)
SortByTimestamp(s) ==
  IF s = <<>> THEN <<>>
  ELSE InsertByTimestamp(SortByTimestamp(SubSeq(s, 1, Len(s) - 1)), s[Len(s)])

Ids(s) == {s[i].id : i \in 1..Len(s)}

\* a polling effect without a cleanup
PollingCleanupM(n, isUsingMockData) == n

\* the cleanup of the polling effect: clearInterval(interval), for the
\* effect that created one
PollingCleanup(n, isUsingMockData) == IF isUsingMockData THEN n ELSE n - 1

\* the body of the polling effect: no interval in mock mode
PollingEffect(n, isUsingMockData) == IF isUsingMockData THEN n ELSE n + 1

\* the cleanup and the body of the drip effect
DripCleanup(n) == n - 1
DripEffect(n) == n + 1

\* the hook after its first render and mount effects
RemoteConstructed ==
  /\ configured \in BOOLEAN
  /\ remote = [queue |-> <<>>, currentTransaction |-> NoTx,
               displayedTransactions |-> <<>>, isLoading |-> TRUE,
               error |-> FALSE, isUsingMockData |-> ~configured]
  /\ remoteQ = [remote EXCEPT !.isLoading = configured]
  /\ seenIdsRef = {}
  /\ queueRef = <<>>
  /\ pollOn = PollingEffect(0, ~configured)
  /\ dripR = [on |-> DripEffect(0), isUsingMockData |-> ~configured]
  /\ inflight = [loading |-> IF configured THEN 1 ELSE 0, poll |-> 0]
  /\ enqueued = <<>>
  /\ dripped = <<>>

\* the hook in mock mode after k synthetic transactions were dripped and
\* rendered (with a key: after the initial fetch failed)
RemoteAfter(k) ==
  /\ configured \in BOOLEAN
  /\ remote = [queue |-> <<>>, currentTransaction |-> MockTransaction(k),
               displayedTransactions |->
                 Slice0([i \in 1..k |-> MockTransaction(k + 1 - i)],
                        MAX_DISPLAYED_TRANSACTIONS),
               isLoading |-> FALSE, error |-> configured,
               isUsingMockData |-> TRUE]
  /\ remoteQ = remote
  /\ seenIdsRef = {}
  /\ queueRef = <<>>
  /\ pollOn = 0
  /\ dripR = [on |-> 1, isUsingMockData |-> TRUE]
  /\ inflight = [loading |-> 0, poll |-> 0]
  /\ enqueued = <<>>
  /\ dripped = <<>>

\* fetchFromAllium up to its await; loading tells whether the caller
\* brackets the call with setIsLoading(true) / setIsLoading(false)
FetchFromAllium(kind) ==
  IF ~configured
  THEN /\ remoteQ' = [remoteQ EXCEPT !.isUsingMockData = TRUE,
                                     !.isLoading = IF kind = "loading" THEN FALSE ELSE @]
       /\ UNCHANGED inflight
  ELSE /\ inflight.loading + inflight.poll < MaxFetch
       /\ inflight' = [inflight EXCEPT ![kind] = @ + 1]
       /\ remoteQ' = [remoteQ EXCEPT !.isLoading = IF kind = "loading" THEN TRUE ELSE @]

\* a render of the remote hook: queued updates become the rendered state,
\* the [queue] effect refreshes queueRef, the polling and drip effects are
\* cleaned up and run again when isUsingMockData changed
RemoteHookRender ==
  /\ remote' = remoteQ
  /\ queueRef' = remoteQ.queue
  /\ IF remote.isUsingMockData # remoteQ.isUsingMockData
     THEN /\ pollOn' = PollingEffect(PollingCleanup(pollOn, remote.isUsingMockData),
                                     remoteQ.isUsingMockData)
          /\ dripR' = [on |-> DripEffect(DripCleanup(dripR.on)),
                       isUsingMockData |-> remoteQ.isUsingMockData]
     ELSE UNCHANGED <<pollOn, dripR>>

\* the owner of the remote hook re-renders
RemoteRender ==
  /\ app = "remote" /\ mounted
  /\ remoteQ # remote
  /\ RemoteHookRender
  /\ UNCHANGED <<app, warm, mounted, nextId, inserted, insertions, configured,
                 remoteQ, seenIdsRef, inflight, enqueued, dripped, notRemote>>

\* the element the drip takes from the queue
DripNext(q) == Head(q)
DripRest(q) == Tail(q)

\* the setInterval callback of the remote drip effect
RemoteDripTick ==
  /\ app \in RemoteApps
  /\ dripR.on > 0
  /\ IF dripR.isUsingMockData
     THEN /\ insertions < MaxInserted
          /\ remoteQ' = [remoteQ EXCEPT
                 !.currentTransaction = MockTransaction(nextId),
                 !.displayedTransactions =
                    Slice0(<<MockTransaction(nextId)>> \o @, MAX_DISPLAYED_TRANSACTIONS)]
          /\ nextId' = nextId + 1
          /\ inserted' = Append(inserted, MockTransaction(nextId))
          /\ insertions' = insertions + 1
          /\ UNCHANGED dripped
     ELSE IF Len(queueRef) > 0 /\ Len(remoteQ.queue) > 0
          THEN /\ insertions < MaxInserted
               /\ remoteQ' = [remoteQ EXCEPT
                      !.queue = DripRest(@),
                      !.currentTransaction = DripNext(remoteQ.queue),
                      !.displayedTransactions =
                         Slice0(<<DripNext(remoteQ.queue)>> \o @, MAX_DISPLAYED_TRANSACTIONS)]
               /\ inserted' = Append(inserted, DripNext(remoteQ.queue))
               /\ dripped' = Append(dripped, DripNext(remoteQ.queue))
               /\ insertions' = insertions + 1
               /\ UNCHANGED nextId
          ELSE UNCHANGED <<remoteQ, nextId, inserted, insertions, dripped>>
  /\ UNCHANGED <<app, warm, mounted, configured, remote, seenIdsRef, queueRef,
                 pollOn, dripR, inflight, enqueued, notRemote>>

\* the setInterval callback of the polling effect
PollTick ==
  /\ app \in RemoteApps
  /\ pollOn > 0
  /\ FetchFromAllium("poll")
  /\ UNCHANGED <<app, warm, mounted, nextId, inserted, insertions, configured,
                 remote, seenIdsRef, queueRef, pollOn, dripR, enqueued, dripped,
                 notRemote>>

\* refetch() of the remote hook, up to the await
RemoteRefetch ==
  /\ app \in RemoteApps /\ mounted
  /\ FetchFromAllium("loading")
  /\ UNCHANGED <<app, warm, mounted, nextId, inserted, insertions, configured,
                 remote, seenIdsRef, queueRef, pollOn, dripR, enqueued, dripped,
                 notRemote>>

\* a failure path that records the error only
FallBackM(q) == [q EXCEPT !.error = TRUE]

\* the failure paths of fetchFromAllium: setError(...); setIsUsingMockData(true)
FallBack(q) == [q EXCEPT !.error = TRUE, !.isUsingMockData = TRUE]

\* fetchFromAllium after its await: the result is a failure, an exception,
\* or a batch of events
FetchSettled(kind, outcome) ==
  /\ app \in RemoteApps
  /\ inflight[kind] > 0
  /\ inflight' = [inflight EXCEPT ![kind] = @ - 1]
  /\ LET done(q) == IF kind = "loading" THEN [q EXCEPT !.isLoading = FALSE] ELSE q
         new == Filter(outcome.data, {e.id : e \in Events} \ seenIdsRef)
     IN IF outcome.result \in {"failure", "exception"}
        THEN /\ remoteQ' = IF mounted
                           THEN done(FallBack(remoteQ))
                           ELSE remoteQ
             /\ UNCHANGED <<seenIdsRef, enqueued>>
        ELSE /\ seenIdsRef' = seenIdsRef \cup Ids(new)
             /\ IF Len(new) > 0
                THEN /\ remoteQ' = IF mounted
                                   THEN done([remoteQ EXCEPT
                                          !.queue = @ \o SortByTimestamp(new),
                                          !.error = FALSE,
                                          !.isUsingMockData = FALSE])
                                   ELSE remoteQ
                     /\ enqueued' = enqueued \o SortByTimestamp(new)
                ELSE /\ remoteQ' = IF mounted THEN done(remoteQ) ELSE remoteQ
                     /\ UNCHANGED enqueued
  /\ UNCHANGED <<app, warm, mounted, nextId, inserted, insertions, configured,
                 remote, queueRef, pollOn, dripR, dripped, notRemote>>

FetchResult ==
  \E kind \in {"loading", "poll"} :
    \/ FetchSettled(kind, [result |-> "failure", data |-> <<>>])
    \/ FetchSettled(kind, [result |-> "exception", data |-> <<>>])
    \/ \E batch \in Batches : FetchSettled(kind, [result |-> "success", data |-> batch])

\* the owner unmounts: both interval effects clean up
RemoteUnmount ==
  /\ app = "remote" /\ mounted
  /\ mounted' = FALSE
  /\ pollOn' = PollingCleanup(pollOn, remote.isUsingMockData)
  /\ dripR' = [dripR EXCEPT !.on = DripCleanup(@)]
  /\ UNCHANGED <<app, warm, nextId, inserted, insertions, configured, remote,
                 remoteQ, seenIdsRef, queueRef, inflight, enqueued, dripped,
                 notRemote>>

(* ======================================================================= *)
(* OrbitingDot                                                             *)
(* ======================================================================= *)

NoPending == [transaction |-> NoTx, phase |-> "none"]

Max(a, b) == IF a > b THEN a ELSE b

DotAbsent ==
  [mounted |-> FALSE, phase |-> "none", hasSettled |-> FALSE, orbitOn |-> FALSE,
   settleOn |-> FALSE, progress |-> 0, trail |-> 0, calls |-> 0]

\* the settling effect body: start the settle interval once per instance
\* a settling effect without the hasSettledRef guard
SettleEffectM(d, phase) ==
  IF phase = "settling"
  THEN [d EXCEPT !.hasSettled = TRUE, !.settleOn = TRUE, !.progress = 0]
  ELSE d

SettleEffect(d, phase) ==
  IF phase = "settling" /\ ~d.hasSettled
  THEN [d EXCEPT !.hasSettled = TRUE, !.settleOn = TRUE, !.progress = 0]
  ELSE d

\* the settling effect cleanup, closed over the phase of the render that
\* created it
SettleCleanup(d) ==
  IF d.settleOn /\ d.phase # "settling" THEN [d EXCEPT !.settleOn = FALSE] ELSE d

\* a new instance is mounted with the given phase and its effects run
DotMount(phase) ==
  SettleEffect([DotAbsent EXCEPT !.mounted = TRUE, !.phase = phase,
                                 !.orbitOn = (phase = "orbiting")], phase)

\* the instance re-renders with a changed phase: the orbit effect and the
\* settling effect are cleaned up and run again
DotPhaseChange(d, phase) ==
  SettleEffect([SettleCleanup(d) EXCEPT !.phase = phase,
                                        !.orbitOn = (phase = "orbiting")], phase)

\* the instance unmounts: both cleanups run
DotUnmount(d) ==
  [SettleCleanup(d) EXCEPT !.mounted = FALSE, !.orbitOn = FALSE]

\* the parent rendered with pendingTx = pt
DotRender(d, pt) ==
  IF d.mounted
  THEN IF pt = NoPending THEN DotUnmount(d)
       ELSE IF pt.phase # d.phase THEN DotPhaseChange(d, pt.phase)
       ELSE d
  ELSE IF pt # NoPending THEN DotMount(pt.phase) ELSE d

(* ======================================================================= *)
(* GlobeVisualization                                                      *)
(* ======================================================================= *)

GlobeApps == {"mockGlobe", "staticApp", "remoteApp"}

\* the component after its first render; the mock-driven version has
\* scheduled startNewTransaction
GlobeConstructed ==
  /\ globe = [pendingTx |-> NoPending, transactions |-> <<>>, newTxId |-> 0]
  /\ globeQ = globe
  /\ globeRef = NoPending
  /\ timers = [initial |-> (app = "mockGlobe"), restart |-> 0, orbit |-> 0,
               highlight |-> 0]
  /\ dot = DotAbsent

\* the mock-driven component after k transactions settled, the k-th just
\* rendered into the table
GlobeAfter(k) ==
  /\ globe = [pendingTx |-> NoPending,
              transactions |->
                Slice0([i \in 1..k |-> MockTransaction(k + 1 - i)],
                       MAX_TRANSACTIONS_GLOBE),
              newTxId |-> k]
  /\ globeQ = globe
  /\ globeRef = NoPending
  /\ timers = [initial |-> FALSE, restart |-> 1, orbit |-> 0, highlight |-> 1]
  /\ dot = [mounted |-> FALSE, phase |-> "settling", hasSettled |-> TRUE,
            orbitOn |-> FALSE, settleOn |-> FALSE, progress |-> 102,
            trail |-> 0, calls |-> 1]

\* handleDotSettled
HandleDotSettled ==
  IF globeRef # NoPending
  THEN /\ globeQ' = IF mounted
                    THEN [globeQ EXCEPT
                            !.newTxId = globeRef.transaction.id,
                            !.transactions =
                               IF app = "mockGlobe"
                               THEN Slice0(<<globeRef.transaction>> \o @,
                                           MAX_TRANSACTIONS_GLOBE)
                               ELSE @,
                            !.pendingTx = NoPending]
                    ELSE globeQ
       /\ timers' = [timers EXCEPT
                       !.highlight = @ + 1,
                       !.restart = IF app = "mockGlobe" THEN @ + 1 ELSE @]
       /\ IF app = "mockGlobe" /\ mounted
          THEN /\ inserted' = Append(inserted, globeRef.transaction)
               /\ insertions' = insertions + 1
          ELSE UNCHANGED <<inserted, insertions>>
  ELSE UNCHANGED <<globeQ, timers, inserted, insertions>>

\* a render of the mock-driven component and of the dot below it
GlobeRender ==
  /\ app = "mockGlobe" /\ mounted
  /\ globeQ # globe
  /\ globe' = globeQ
  /\ globeRef' = globeQ.pendingTx
  /\ dot' = DotRender(dot, globeQ.pendingTx)
  /\ UNCHANGED <<app, warm, mounted, nextId, inserted, insertions, globeQ, timers,
                 notGlobe>>

\* startNewTransaction, called by the initial or the restart timeout
StartNewTransaction ==
  /\ app = "mockGlobe"
  /\ nextId <= warm + MaxTx
  /\ \E which \in {"initial", "restart"} :
       /\ IF which = "initial" THEN timers.initial ELSE timers.restart > 0
       /\ timers' = [timers EXCEPT
                       ![which] = IF which = "initial" THEN FALSE ELSE @ - 1,
                       !.orbit = @ + 1]
  /\ globeQ' = IF mounted
               THEN [globeQ EXCEPT !.pendingTx =
                       [transaction |-> MockTransaction(nextId), phase |-> "orbiting"]]
               ELSE globeQ
  /\ nextId' = nextId + 1
  /\ UNCHANGED <<app, warm, mounted, inserted, insertions, globe, globeRef, dot,
                 notGlobe>>

\* a timeout that removes the pending transaction
StartSettlingM(prev) == NoPending

\* the updater of the timeout: prev ? { ...prev, phase: 'settling' } : null
StartSettling(prev) ==
  IF prev # NoPending THEN [prev EXCEPT !.phase = "settling"] ELSE NoPending

\* the ORBIT_DURATION timeout
OrbitTimeout ==
  /\ app \in GlobeApps
  /\ timers.orbit > 0
  /\ timers' = [timers EXCEPT !.orbit = @ - 1]
  /\ globeQ' = IF mounted
               THEN [globeQ EXCEPT !.pendingTx = StartSettling(@)]
               ELSE globeQ
  /\ UNCHANGED <<app, warm, mounted, nextId, inserted, insertions, globe, globeRef,
                 dot, notGlobe>>

\* a highlight timeout that leaves newTxId alone
ClearHighlightM(g) == g

\* setNewTxId(undefined)
ClearHighlight(g) == [g EXCEPT !.newTxId = 0]

\* the 800 ms timeout that clears the highlight
HighlightTimeout ==
  /\ app \in GlobeApps
  /\ timers.highlight > 0
  /\ timers' = [timers EXCEPT !.highlight = @ - 1]
  /\ globeQ' = IF mounted THEN ClearHighlight(globeQ) ELSE globeQ
  /\ UNCHANGED <<app, warm, mounted, nextId, inserted, insertions, globe, globeRef,
                 dot, notGlobe>>

\* a trail cut one position later
OrbitTrailM(n) == Min(n + 1, TRAIL_LENGTH + 1)

\* the length of [{x, y, angle}, ...prevTrail].slice(0, 15)
OrbitTrail(n) == Min(n + 1, TRAIL_LENGTH)

\* the length of prev.slice(1)
FadeTrail(n) == Max(n - 1, 0)

\* the 20 ms interval of the orbit effect
DotOrbitTick ==
  /\ app \in GlobeApps
  /\ dot.orbitOn
  /\ dot' = [dot EXCEPT !.trail = OrbitTrail(@)]
  /\ UNCHANGED <<app, warm, mounted, nextId, inserted, insertions, globe, globeQ,
                 globeRef, timers, notGlobe>>

\* the settle interval has reached full progress
SettleDone(progress) == progress >= SETTLE_FULL

\* the 16 ms interval of the settling effect
DotSettleTick ==
  /\ app \in GlobeApps
  /\ dot.settleOn
  /\ IF SettleDone(dot.progress + SETTLE_STEP)
     THEN /\ dot' = [dot EXCEPT !.progress = @ + SETTLE_STEP,
                                !.trail = FadeTrail(@),
                                !.settleOn = FALSE,
                                !.calls = @ + 1]
          /\ timers.highlight < MaxHighlights
          /\ HandleDotSettled
     ELSE /\ dot' = [dot EXCEPT !.progress = @ + SETTLE_STEP,
                                !.trail = FadeTrail(@)]
          /\ UNCHANGED <<globeQ, timers, inserted, insertions>>
  /\ UNCHANGED <<app, warm, mounted, nextId, globe, globeRef, notGlobe>>

\* the component unmounts: the mount effect clears its own timeout and the
\* dot below is unmounted
GlobeUnmount ==
  /\ app = "mockGlobe" /\ mounted
  /\ mounted' = FALSE
  /\ timers' = [timers EXCEPT !.initial = FALSE]
  /\ dot' = IF dot.mounted THEN DotUnmount(dot) ELSE dot
  /\ UNCHANGED <<app, warm, nextId, inserted, insertions, globe, globeQ, globeRef,
                 notGlobe>>

(* ======================================================================= *)
(* Hook-driven GlobeVisualization over the static hook                     *)
(* ======================================================================= *)

\* the effect watching [currentTransaction, pendingTx]: start the orbit of
\* the hook's current transaction when nothing is being animated
WatchEffect(oldCurrent, current, oldPending, pending) ==
  IF /\ (oldCurrent # current \/ oldPending # pending)
     /\ current # NoTx
     /\ pending = NoPending
  THEN /\ globeQ' = [globeQ EXCEPT !.pendingTx =
                       [transaction |-> current, phase |-> "orbiting"]]
       /\ timers' = [timers EXCEPT !.orbit = @ + 1]
  ELSE UNCHANGED <<globeQ, timers>>

\* a render of GlobeVisualization with the hook it calls and of the dot
\* below it; currentTransaction is the hook's pendingTransaction
AppRender ==
  /\ app = "staticApp" /\ mounted
  /\ hookQ # hook \/ globeQ # globe
  /\ HookRender
  /\ globe' = globeQ
  /\ globeRef' = globeQ.pendingTx
  /\ dot' = DotRender(dot, globeQ.pendingTx)
  /\ WatchEffect(hook.pendingTransaction, hookQ.pendingTransaction,
                 globe.pendingTx, globeQ.pendingTx)
  /\ UNCHANGED <<app, warm, mounted, inserted, insertions, remoteVars, feedVars,
                 clientVars, callVars>>

\* the application unmounts: the hook's drip effect clears its interval and
\* the dot below is unmounted
AppUnmount ==
  /\ app = "staticApp" /\ mounted
  /\ mounted' = FALSE
  /\ drip' = [drip EXCEPT !.on = FALSE]
  /\ dot' = IF dot.mounted THEN DotUnmount(dot) ELSE dot
  /\ UNCHANGED <<app, warm, nextId, inserted, insertions, hook, hookQ, pendingTxRef,
                 currentIndexRef, pulled, remoteVars, globe, globeQ, globeRef, timers,
                 feedVars, clientVars, callVars>>

\* a render of GlobeVisualization over the remote hook and of the dot below
\* it; the watch effect follows the hook's currentTransaction
RemoteAppRender ==
  /\ app = "remoteApp" /\ mounted
  /\ remoteQ # remote \/ globeQ # globe
  /\ RemoteHookRender
  /\ globe' = globeQ
  /\ globeRef' = globeQ.pendingTx
  /\ dot' = DotRender(dot, globeQ.pendingTx)
  /\ WatchEffect(remote.currentTransaction, remoteQ.currentTransaction,
                 globe.pendingTx, globeQ.pendingTx)
  /\ UNCHANGED <<app, warm, mounted, nextId, inserted, insertions, configured,
                 remoteQ, seenIdsRef, inflight, enqueued, dripped, hookVars,
                 feedVars, clientVars, callVars>>

\* the application over the remote hook unmounts: the hook's interval
\* effects clean up and the dot below is unmounted
RemoteAppUnmount ==
  /\ app = "remoteApp" /\ mounted
  /\ mounted' = FALSE
  /\ pollOn' = PollingCleanup(pollOn, remote.isUsingMockData)
  /\ dripR' = [dripR EXCEPT !.on = DripCleanup(@)]
  /\ dot' = IF dot.mounted THEN DotUnmount(dot) ELSE dot
  /\ UNCHANGED <<app, warm, nextId, inserted, insertions, configured, remote,
                 remoteQ, seenIdsRef, queueRef, inflight, enqueued, dripped,
                 globe, globeQ, globeRef, timers, hookVars, feedVars, clientVars, callVars>>

(* ======================================================================= *)
(* TransactionFeed                                                         *)
(* ======================================================================= *)

\* generateInitialTransactions(8)
InitialFeed == [i \in 1..INITIAL_TRANSACTIONS |-> MockTransaction(i)]

\* the component after its first render: the mount effects have queued the
\* initial transactions and scheduled addTransaction
FeedConstructed ==
  /\ feed = [transactions |-> <<>>, newTransactionIds |-> {}]
  /\ feedQ = [feed EXCEPT !.transactions = InitialFeed]
  /\ feedTimers = [add |-> TRUE, flags |-> {}]

\* the component after k transactions were added and rendered and their
\* flags were removed
FeedAfter(k) ==
  /\ feed = [transactions |->
               Slice0([i \in 1..k |-> MockTransaction(INITIAL_TRANSACTIONS + k + 1 - i)]
                        \o InitialFeed, MAX_TRANSACTIONS_FEED),
             newTransactionIds |-> {}]
  /\ feedQ = feed
  /\ feedTimers = [add |-> TRUE, flags |-> {}]

FeedRender ==
  /\ app = "feed" /\ mounted
  /\ feedQ # feed
  /\ feed' = feedQ
  /\ UNCHANGED <<app, warm, mounted, nextId, inserted, insertions, feedQ, feedTimers,
                 notFeed>>

\* addTransaction, the callback of the rescheduling timeout
AddTransaction ==
  /\ app = "feed"
  /\ feedTimers.add
  /\ insertions < MaxInserted
  /\ Cardinality(feedTimers.flags) < MaxFlags
  /\ feedQ' = [feedQ EXCEPT
        !.transactions = Slice0(<<MockTransaction(nextId)>> \o @, MAX_TRANSACTIONS_FEED),
        !.newTransactionIds = @ \cup {nextId}]
  /\ feedTimers' = [feedTimers EXCEPT !.flags = @ \cup {nextId}]
  /\ nextId' = nextId + 1
  /\ inserted' = Append(inserted, MockTransaction(nextId))
  /\ insertions' = insertions + 1
  /\ UNCHANGED <<app, warm, mounted, feed, notFeed>>

\* the 600 ms timeout that removes the "new" flag of one transaction
FlagTimeout ==
  /\ app = "feed"
  /\ \E id \in feedTimers.flags :
       /\ feedTimers' = [feedTimers EXCEPT !.flags = @ \ {id}]
       /\ feedQ' = IF mounted
                   THEN [feedQ EXCEPT !.newTransactionIds = @ \ {id}]
                   ELSE feedQ
  /\ UNCHANGED <<app, warm, mounted, nextId, inserted, insertions, feed, notFeed>>

\* the component unmounts: the effect cleanup clears the rescheduling timeout
FeedUnmount ==
  /\ app = "feed" /\ mounted
  /\ mounted' = FALSE
  /\ feedTimers' = [feedTimers EXCEPT !.add = FALSE]
  /\ UNCHANGED <<app, warm, nextId, inserted, insertions, feed, feedQ, notFeed>>

(* ======================================================================= *)
(* executeQuery                                                            *)
(* ======================================================================= *)

\* parseInt of a header value that is not a number
NaN == -1

\* Retry-After as delivered by response.headers.get: absent (null),
\* delta-seconds, or an HTTP date
NoHeader == -1
DateHeader == -2
RetryAfterValues == {NoHeader, DateHeader} \cup 0..MaxRetryAfter

\* what one fetch attempt can do: throw, or deliver a response whose body
\* read (text() or json()) succeeds or throws
Attempts ==
  [fetch : {"TypeError", "Error"}, status : {0}, retryAfter : {NoHeader},
   body : {"none"}, data : {<<>>}]
  \cup [fetch : {"response"}, status : {404, 429, 500, 503},
         retryAfter : RetryAfterValues, body : {"text", "TypeError"}, data : {<<>>}]
  \cup [fetch : {"response"}, status : {200}, retryAfter : {NoHeader},
         body : {"array", "object", "noData", "SyntaxError", "TypeError"},
         data : Batches]

\* the outcome is one of the transient classes: 429, 5xx, network TypeError
Transient(a) == a.fetch = "TypeError" \/ (a.fetch = "response" /\ a.status \in {429, 500, 503})

\* the retry guard shared by the three retry branches
\* a retry test that admits one more retry
MayRetryM(retryCount) == retryCount <= MAX_RETRIES

MayRetry(retryCount) == retryCount < MAX_RETRIES

\* RETRY_DELAY_MS * (retryCount + 1)
LinearDelay(retryCount) == RETRY_DELAY_MS * (retryCount + 1)

\* a rate-limit delay that ignores the Retry-After header
RateLimitDelayM(retryAfter, retryCount) == RETRY_DELAY_MS * (retryCount + 1)

\* retryAfter ? parseInt(retryAfter, 10) * 1000 : RETRY_DELAY_MS * (retryCount + 1)
RateLimitDelay(retryAfter, retryCount) ==
  IF retryAfter = NoHeader THEN LinearDelay(retryCount)
  ELSE IF retryAfter = DateHeader THEN NaN
  ELSE retryAfter * 1000

\* await sleep(delay); setTimeout treats NaN as 0
Sleep(c, delay) ==
  [c EXCEPT !.pc = "sleeping", !.delay = delay, !.sleptAt = now,
            !.wakeAt = now + (IF delay = NaN THEN 0 ELSE delay)]

Failure(c) == [c EXCEPT !.pc = "done", !.result = "failure"]

\* a catch block that rethrows what it does not retry
CatchM(c, error) ==
  IF c.retryCount < MAX_RETRIES /\ error = "TypeError"
  THEN [c EXCEPT !.pc = "sleeping", !.delay = RETRY_DELAY_MS * (c.retryCount + 1),
                 !.sleptAt = now, !.wakeAt = now + RETRY_DELAY_MS * (c.retryCount + 1)]
  ELSE [c EXCEPT !.pc = "done", !.rejected = TRUE]

\* the catch block: retry on TypeError, otherwise report failure
Catch(c, error) ==
  IF MayRetry(c.retryCount) /\ error = "TypeError"
  THEN Sleep(c, LinearDelay(c.retryCount))
  ELSE Failure(c)

\* an error response that is retried whatever its status
ErrorResponseM(c, a) ==
  IF c.retryCount < MAX_RETRIES
  THEN [c EXCEPT !.pc = "sleeping", !.delay = RETRY_DELAY_MS * (c.retryCount + 1),
                 !.sleptAt = now, !.wakeAt = now + RETRY_DELAY_MS * (c.retryCount + 1)]
  ELSE [c EXCEPT !.pc = "done", !.result = "failure"]

\* a non-ok response that is not retried: await response.text(), then the
\* failure result; a rejected text() is handled by the catch block
ErrorResponse(c, a) ==
  IF a.body = "text" THEN Failure(c) ELSE Catch(c, a.body)

\* the body of the try block once fetch has settled with attempt a
Try(c, a) ==
  IF a.fetch # "response" THEN Catch(c, a.fetch)
  ELSE IF a.status # 200
  THEN IF a.status = 429 /\ MayRetry(c.retryCount)
       THEN Sleep(c, RateLimitDelay(a.retryAfter, c.retryCount))
       ELSE IF a.status >= 500 /\ MayRetry(c.retryCount)
       THEN Sleep(c, LinearDelay(c.retryCount))
       ELSE ErrorResponse(c, a)
  ELSE IF a.body \in {"SyntaxError", "TypeError"} THEN Catch(c, a.body)
  ELSE [c EXCEPT !.pc = "done", !.result = "success",
                 !.data = IF a.body = "noData" THEN <<>> ELSE a.data]

\* an executeQuery that does not look at the key
ExecuteQueryM ==
  /\ app = "client"
  /\ client.pc = "idle"
  /\ client' = [client EXCEPT !.pc = "fetching", !.attempts = @ + 1]
  /\ UNCHANGED <<now, notClient>>

\* executeQuery(sql) is called: without a key it returns a failure at once
ExecuteQuery ==
  /\ app = "client"
  /\ client.pc = "idle"
  /\ client' = IF configured
               THEN [client EXCEPT !.pc = "fetching", !.attempts = @ + 1]
               ELSE Failure(client)
  /\ UNCHANGED <<now, notClient>>

\* the awaited fetch settles
FetchSettles ==
  /\ app = "client"
  /\ client.pc = "fetching"
  /\ \E a \in Attempts :
       client' = Try([client EXCEPT !.status = a.status,
                                    !.retryAfter = a.retryAfter,
                                    !.body = a.body,
                                    !.transient = @ /\ Transient(a)], a)
  /\ UNCHANGED <<now, notClient>>

\* the sleep timeout fires: executeQuery(sql, retryCount + 1)
SleepDone ==
  /\ app = "client"
  /\ client.pc = "sleeping"
  /\ now >= client.wakeAt
  /\ client' = [client EXCEPT !.pc = "fetching", !.retryCount = @ + 1,
                              !.attempts = @ + 1]
  /\ UNCHANGED <<now, notClient>>

\* time passes while the call sleeps
ClockTick ==
  /\ app = "client"
  /\ client.pc = "sleeping"
  /\ now < client.wakeAt
  /\ now' = now + RETRY_DELAY_MS
  /\ UNCHANGED <<client, notClient>>

(* ======================================================================= *)
(* Allium adapter: response parsing and transformEvents                    *)
(* ======================================================================= *)

\* what a function of the data layer never touches
notCall == <<app, warm, mounted, nextId, inserted, insertions, hookVars, remoteVars,
             globeVars, feedVars, clientVars>>

\* strings are sequences of characters; a field whose characters play no
\* role is a sequence of one symbol
Hashes == {<<"a">>, <<"b">>}
Actions == {<<"supply">>, <<"borrow">>, <<"Repay">>, <<"liquidate">>}
Wallets ==
  {<<"x", "1", "1", "1", "1", "1", "1", "1", "1">>,
   <<"y", "1", "1", "1", "1", "1", "1", "1", "1">>,
   <<"7">>}

\* the fields of AlliumLendingEvent that the id is built from, on the chain
\* and with a token the queries select
AlliumEvents ==
  [transaction_hash : Hashes, action : Actions, wallet : Wallets,
   token_symbol : {<<"USDC">>}, chain : {<<"ethereum">>}]

\* the declared types ActionType, Network and Asset
ActionType == {<<"supply">>, <<"borrow">>, <<"repay">>, <<"withdraw">>, <<"liquidation">>}
Network == {<<"Ethereum">>, <<"Base">>, <<"Arbitrum">>, <<"Optimism">>}
Asset ==
  {<<"USDC">>, <<"ETH">>, <<"WBTC">>, <<"DAI">>, <<"USDT">>, <<"WETH">>,
   <<"cbETH">>, <<"stETH">>}

\* action, token_symbol and chain strings an event may carry
ActionStrings ==
  Actions \cup {<<"withdraw">>, <<"WITHDRAW">>, <<"liquidation">>, <<"constructor">>}
TokenStrings ==
  {<<"USDC">>, <<"usdc">>, <<"PYUSD">>, <<"cbETH">>, <<"stEth">>, <<"LINK">>}
ChainStrings == {<<"ethereum">>, <<"Base">>, <<"ARBITRUM">>, <<"polygon">>}

\* events with every combination of the mapped fields
MappedEvents ==
  [transaction_hash : {<<"a">>}, action : ActionStrings, wallet : {<<"7">>},
   token_symbol : TokenStrings, chain : ChainStrings]

\* String.prototype.toLowerCase on the symbols in use
toLowerCase(str) ==
  [i \in 1..Len(str) |->
     CASE str[i] = "Repay" -> "repay"
       [] str[i] = "WITHDRAW" -> "withdraw"
       [] str[i] = "Base" -> "base"
       [] str[i] = "ARBITRUM" -> "arbitrum"
       [] OTHER -> str[i]]

\* String.prototype.toUpperCase on the symbols in use
toUpperCase(str) ==
  [i \in 1..Len(str) |->
     CASE str[i] = "usdc" -> "USDC"
       [] str[i] = "cbETH" -> "CBETH"
       [] str[i] = "stEth" -> "STETH"
       [] OTHER -> str[i]]

\* map[key] || fallback on an object literal: own keys first, then the
\* properties inherited from Object.prototype
Lookup(map, key, fallback) ==
  IF key \in DOMAIN map THEN map[key]
  ELSE IF key = <<"constructor">> THEN <<"function Object">>
  ELSE fallback

\* the parsed body of a successful response: a bare array, an object with a
\* data array, or an object without one
Responses ==
  [shape : {"array", "object"},
   events : UNION {[1..n -> AlliumEvents] : n \in 0..MaxResponse}]
  \cup [shape : {"noData"}, events : {<<>>}]

\* Array.isArray(result) ? result : (result.data || [])
ResponseData(result) ==
  IF result.shape = "array" THEN result.events
  ELSE IF result.shape = "object" THEN result.events
  ELSE <<>>

\* String.prototype.slice(-n)
SliceLast(str, n) == SubSeq(str, Max(Len(str) - n, 0) + 1, Len(str))

\* generateId: `${transaction_hash}-${action}-${wallet.slice(-8)}`
generateId(event) ==
  event.transaction_hash \o <<"-">> \o event.action \o <<"-">>
    \o SliceLast(event.wallet, WALLET_SUFFIX)

\* mapAction: actionMap[action.toLowerCase()] || 'supply'
mapAction(action) ==
  LET actionMap == [k \in {<<"supply">>, <<"borrow">>, <<"repay">>, <<"withdraw">>} |-> k]
  IN Lookup(actionMap, toLowerCase(action), <<"supply">>)

\* mapNetwork: networkMap[chain.toLowerCase()] || 'Ethereum'
mapNetwork(chain) ==
  LET networkMap ==
        [k \in {<<"ethereum">>, <<"base">>, <<"arbitrum">>, <<"optimism">>} |->
           CASE k = <<"ethereum">> -> <<"Ethereum">>
             [] k = <<"base">> -> <<"Base">>
             [] k = <<"arbitrum">> -> <<"Arbitrum">>
             [] k = <<"optimism">> -> <<"Optimism">>]
  IN Lookup(networkMap, toLowerCase(chain), <<"Ethereum">>)

\* mapAsset: assetMap[tokenSymbol.toUpperCase()] || 'USDC'
mapAsset(tokenSymbol) ==
  LET assetMap ==
        [k \in {<<"USDC">>, <<"USDT">>, <<"PYUSD">>, <<"ETH">>, <<"WETH">>,
                <<"WBTC">>, <<"DAI">>, <<"CBETH">>, <<"STETH">>} |->
           CASE k = <<"CBETH">> -> <<"cbETH">>
             [] k = <<"STETH">> -> <<"stETH">>
             [] OTHER -> k]
  IN Lookup(assetMap, toUpperCase(tokenSymbol), <<"USDC">>)

\* transformEvent, with the fields that depend on the id's sources
transformEvent(event) ==
  [id |-> generateId(event),
   action |-> mapAction(event.action),
   asset |-> mapAsset(event.token_symbol),
   walletAddress |-> event.wallet,
   network |-> mapNetwork(event.chain),
   transactionHash |-> event.transaction_hash]

\* transformEvents: events.map(transformEvent)
transformEvents(events) == [i \in 1..Len(events) |-> transformEvent(events[i])]

\* a successful response is parsed and handed to transformEvents
TransformResponse ==
  /\ app = "transform"
  /\ call.fn = "transformEvents" /\ ~returned.done
  /\ returned' = [done |-> TRUE, value |-> transformEvents(ResponseData(call.arg))]
  /\ UNCHANGED <<call, notCall>>

(* ======================================================================= *)
(* Synthetic transactions: generateTransaction                             *)
(* ======================================================================= *)

\* Math.random() returns n / RANDOM_DEN for an n in 0..RANDOM_DEN - 1; the
\* draws explored are the eighths and the largest value
RANDOM_DEN == 16384
IndexDraws == {k * (RANDOM_DEN \div 8) : k \in 0..7} \cup {RANDOM_DEN - 1}
AmountDraws == {0, 1, RANDOM_DEN \div 2, RANDOM_DEN - 1}

\* Math.round(random * width / RANDOM_DEN): halves round up; the whole
\* multiples of RANDOM_DEN are taken out of the product first
RoundScaled(random, width) ==
  random * (width \div RANDOM_DEN)
    + (2 * random * (width % RANDOM_DEN) + RANDOM_DEN) \div (2 * RANDOM_DEN)

\* ACTIONS, the action types a synthetic transaction is drawn from
ACTION_TYPES == <<"supply", "borrow", "repay", "withdraw", "liquidation">>
ASSETS == <<"USDC", "ETH", "WBTC", "DAI", "USDT", "WETH", "cbETH", "stETH">>

\* the ranges of generateAmount, in hundredths
ranges ==
  [a \in {ASSETS[i] : i \in 1..Len(ASSETS)} |->
     CASE a \in {"USDC", "DAI", "USDT"} -> <<10000, 50000000>>
       [] a \in {"ETH", "WETH", "stETH"} -> <<10, 10000>>
       [] a = "WBTC" -> <<1, 1000>>
       [] a = "cbETH" -> <<10, 5000>>]

\* list[Math.floor(Math.random() * list.length)]
Pick(list, random) == list[((random * Len(list)) \div RANDOM_DEN) + 1]

\* an amount drawn from 0 up to the width of the range
generateAmountM(asset, random) ==
  RoundScaled(random, ranges[asset][2] - ranges[asset][1])

\* generateAmount, in hundredths:
\* Math.round((Math.random() * (max - min) + min) * 100) / 100
generateAmount(asset, random) ==
  LET min == ranges[asset][1]
      max == ranges[asset][2]
  IN min + RoundScaled(random, max - min)

\* the collateral candidates without the filter
CollateralAssetsM(asset) == ASSETS

\* ASSETS.filter(a => a !== asset)
CollateralAssets(asset) == SelectSeq(ASSETS, LAMBDA a : a # asset)

\* a field that was not set
Undefined == "undefined"

\* generateTransaction, the draws of Math.random() being given
\* (a collateralAmount that is not set is 0: every set amount is at least
\* one hundredth)
generateTransaction(random) ==
  LET action == Pick(ACTION_TYPES, random.action)
      asset == Pick(ASSETS, random.asset)
      collateralAsset == Pick(CollateralAssets(asset), random.collateral)
  IN [action |-> action,
      asset |-> asset,
      amount |-> generateAmount(asset, random.amount),
      collateralAsset |->
        IF action = "liquidation" THEN collateralAsset ELSE Undefined,
      collateralAmount |->
        IF action = "liquidation"
        THEN generateAmount(collateralAsset, random.collateralAmount)
        ELSE 0]

\* the draws of one call
Draws ==
  [action : IndexDraws, asset : IndexDraws, amount : AmountDraws,
   collateral : IndexDraws, collateralAmount : AmountDraws]

\* generateTransaction() is called and returns
GenerateTransaction ==
  /\ app = "generate"
  /\ call.fn = "generateTransaction" /\ ~returned.done
  /\ returned' = [done |-> TRUE, value |-> generateTransaction(call.arg)]
  /\ UNCHANGED <<call, notCall>>

(* ======================================================================= *)
(* Specifications                                                          *)
(* ======================================================================= *)

\* the static hook is not part of this composition
StaticAbsent ==
  /\ hook = [pendingTransaction |-> NoTx, displayedTransactions |-> <<>>,
             isLoading |-> FALSE, readyForNext |-> FALSE]
  /\ hookQ = hook
  /\ pendingTxRef = NoTx
  /\ currentIndexRef = 0
  /\ drip = [on |-> FALSE, readyForNext |-> FALSE]
  /\ pulled = <<>>

\* the remote hook is not part of this composition
RemoteAbsent ==
  /\ configured = FALSE
  /\ remote = [queue |-> <<>>, currentTransaction |-> NoTx,
               displayedTransactions |-> <<>>, isLoading |-> FALSE,
               error |-> FALSE, isUsingMockData |-> FALSE]
  /\ remoteQ = remote
  /\ seenIdsRef = {}
  /\ queueRef = <<>>
  /\ pollOn = 0
  /\ dripR = [on |-> 0, isUsingMockData |-> FALSE]
  /\ inflight = [loading |-> 0, poll |-> 0]
  /\ enqueued = <<>>
  /\ dripped = <<>>

GlobeAbsent ==
  /\ globe = [pendingTx |-> NoPending, transactions |-> <<>>, newTxId |-> 0]
  /\ globeQ = globe
  /\ globeRef = NoPending
  /\ timers = [initial |-> FALSE, restart |-> 0, orbit |-> 0, highlight |-> 0]
  /\ dot = DotAbsent

FeedAbsent ==
  /\ feed = [transactions |-> <<>>, newTransactionIds |-> {}]
  /\ feedQ = feed
  /\ feedTimers = [add |-> FALSE, flags |-> {}]

ClientIdle ==
  [pc |-> "idle", retryCount |-> 0, attempts |-> 0, status |-> 0, retryAfter |-> -1,
   body |-> "none", delay |-> 0, sleptAt |-> 0, wakeAt |-> 0, transient |-> TRUE, result |-> "none", data |-> <<>>,
   rejected |-> FALSE]

ClientAbsent ==
  /\ client = ClientIdle
  /\ now = 0

\* no function of the data layer is under study
NoCall ==
  /\ call = [fn |-> "none", arg |-> <<>>]
  /\ returned = [done |-> FALSE, value |-> <<>>]

InitStatic ==
  /\ app = "static"
  /\ RemoteAbsent
  /\ GlobeAbsent
  /\ FeedAbsent
  /\ ClientAbsent
  /\ NoCall
  /\ mounted = TRUE
  /\ insertions = 0
  /\ \/ warm = 0 /\ HookConstructed /\ nextId = 1 /\ inserted = <<>>
     \/ warm = Warm /\ HookAfter(Warm) /\ nextId = Warm + 2
          /\ inserted = [i \in 1..Warm |-> CycleTx(i)]

NextStatic ==
  \/ Render
  \/ DripTick
  \/ CommitTransaction
  \/ Refetch
  \/ Unmount

SpecStatic == InitStatic /\ [][NextStatic]_vars

InitRemote ==
  /\ app = "remote"
  /\ StaticAbsent
  /\ GlobeAbsent
  /\ FeedAbsent
  /\ ClientAbsent
  /\ NoCall
  /\ mounted = TRUE
  /\ insertions = 0
  /\ \/ warm = 0 /\ RemoteConstructed /\ nextId = 1 /\ inserted = <<>>
     \/ warm = Warm /\ RemoteAfter(Warm) /\ nextId = Warm + 1
          /\ inserted = [i \in 1..Warm |-> MockTransaction(i)]

NextRemote ==
  \/ RemoteRender
  \/ RemoteDripTick
  \/ PollTick
  \/ RemoteRefetch
  \/ FetchResult
  \/ RemoteUnmount

SpecRemote == InitRemote /\ [][NextRemote]_vars

InitMockGlobe ==
  /\ app = "mockGlobe"
  /\ StaticAbsent
  /\ RemoteAbsent
  /\ FeedAbsent
  /\ ClientAbsent
  /\ NoCall
  /\ mounted = TRUE
  /\ insertions = 0
  /\ \/ warm = 0 /\ GlobeConstructed /\ nextId = 1 /\ inserted = <<>>
     \/ warm = WarmGlobe /\ GlobeAfter(WarmGlobe) /\ nextId = WarmGlobe + 1
          /\ inserted = [i \in 1..WarmGlobe |-> MockTransaction(i)]

NextMockGlobe ==
  \/ GlobeRender
  \/ StartNewTransaction
  \/ OrbitTimeout
  \/ HighlightTimeout
  \/ DotOrbitTick
  \/ DotSettleTick
  \/ GlobeUnmount

SpecMockGlobe == InitMockGlobe /\ [][NextMockGlobe]_vars

InitStaticApp ==
  /\ app = "staticApp"
  /\ RemoteAbsent
  /\ FeedAbsent
  /\ ClientAbsent
  /\ NoCall
  /\ mounted = TRUE
  /\ insertions = 0
  /\ warm = 0 /\ HookConstructed /\ GlobeConstructed /\ nextId = 1 /\ inserted = <<>>

NextStaticApp ==
  \/ AppRender
  \/ DripTick
  \/ OrbitTimeout
  \/ HighlightTimeout
  \/ DotOrbitTick
  \/ DotSettleTick
  \/ AppUnmount

SpecStaticApp == InitStaticApp /\ [][NextStaticApp]_vars

\* timers keep firing and React keeps rendering
FairStaticApp ==
  /\ SpecStaticApp
  /\ WF_vars(AppRender)
  /\ WF_vars(DripTick)
  /\ WF_vars(OrbitTimeout)
  /\ WF_vars(HighlightTimeout)
  /\ WF_vars(DotOrbitTick)
  /\ WF_vars(DotSettleTick)

InitFeed ==
  /\ app = "feed"
  /\ StaticAbsent
  /\ RemoteAbsent
  /\ GlobeAbsent
  /\ ClientAbsent
  /\ NoCall
  /\ mounted = TRUE
  /\ insertions = 0
  /\ \/ warm = 0 /\ FeedConstructed /\ nextId = INITIAL_TRANSACTIONS + 1
          /\ inserted = <<>>
     \/ warm = Warm /\ FeedAfter(Warm) /\ nextId = INITIAL_TRANSACTIONS + Warm + 1
          /\ inserted = [i \in 1..Warm |-> MockTransaction(INITIAL_TRANSACTIONS + i)]

NextFeed ==
  \/ FeedRender
  \/ AddTransaction
  \/ FlagTimeout
  \/ FeedUnmount

SpecFeed == InitFeed /\ [][NextFeed]_vars

InitClient ==
  /\ app = "client"
  /\ StaticAbsent
  /\ GlobeAbsent
  /\ FeedAbsent
  /\ configured \in BOOLEAN
  /\ remote = [queue |-> <<>>, currentTransaction |-> NoTx,
               displayedTransactions |-> <<>>, isLoading |-> FALSE,
               error |-> FALSE, isUsingMockData |-> FALSE]
  /\ remoteQ = remote
  /\ seenIdsRef = {}
  /\ queueRef = <<>>
  /\ pollOn = 0
  /\ dripR = [on |-> 0, isUsingMockData |-> FALSE]
  /\ inflight = [loading |-> 0, poll |-> 0]
  /\ enqueued = <<>>
  /\ dripped = <<>>
  /\ mounted = TRUE
  /\ insertions = 0
  /\ warm = 0
  /\ nextId = 1
  /\ inserted = <<>>
  /\ client = ClientIdle
  /\ now = 0
  /\ NoCall

NextClient ==
  \/ ExecuteQuery
  \/ FetchSettles
  \/ SleepDone
  \/ ClockTick

SpecClient == InitClient /\ [][NextClient]_vars

\* every awaited fetch settles and every sleep timeout fires
FairClient ==
  /\ SpecClient
  /\ WF_vars(ExecuteQuery)
  /\ WF_vars(FetchSettles)
  /\ WF_vars(SleepDone)
  /\ WF_vars(ClockTick)

\* the hooks, each with an owner that calls its exported functions
InitHooks == InitStatic \/ InitRemote

NextHooks == NextStatic \/ NextRemote

SpecHooks == InitHooks /\ [][NextHooks]_vars

\* every composition that keeps a displayed list
InitDisplay == InitStatic \/ InitRemote \/ InitFeed \/ InitMockGlobe

NextDisplay == NextStatic \/ NextRemote \/ NextFeed \/ NextMockGlobe

SpecDisplay == InitDisplay /\ [][NextDisplay]_vars

\* every composition of components
InitComponents == InitDisplay \/ InitStaticApp

NextComponents == NextDisplay \/ NextStaticApp

SpecComponents == InitComponents /\ [][NextComponents]_vars

\* the two components that flag a new row, with timers that keep firing
InitHighlights == InitMockGlobe \/ InitFeed

NextHighlights == NextMockGlobe \/ NextFeed

FairHighlights ==
  /\ InitHighlights /\ [][NextHighlights]_vars
  /\ WF_vars(GlobeRender)
  /\ WF_vars(OrbitTimeout)
  /\ WF_vars(HighlightTimeout)
  /\ WF_vars(DotSettleTick)
  /\ WF_vars(FeedRender)
  /\ WF_vars(FlagTimeout)

\* the mock-driven globe with timers that keep firing
FairMockGlobe ==
  /\ SpecMockGlobe
  /\ WF_vars(GlobeRender)
  /\ WF_vars(OrbitTimeout)
  /\ WF_vars(HighlightTimeout)
  /\ WF_vars(DotSettleTick)

\* GlobeVisualization over the remote hook, run without an API key: the hook
\* is in mock mode, polls nothing and fetches nothing
InitRemoteApp ==
  /\ app = "remoteApp"
  /\ StaticAbsent
  /\ FeedAbsent
  /\ ClientAbsent
  /\ NoCall
  /\ mounted = TRUE
  /\ insertions = 0
  /\ warm = 0 /\ RemoteConstructed /\ GlobeConstructed /\ nextId = 1
  /\ inserted = <<>>
  /\ ~configured

NextRemoteApp ==
  \/ RemoteAppRender
  \/ RemoteDripTick
  \/ OrbitTimeout
  \/ HighlightTimeout
  \/ DotOrbitTick
  \/ DotSettleTick
  \/ RemoteAppUnmount

SpecRemoteApp == InitRemoteApp /\ [][NextRemoteApp]_vars

\* both versions of GlobeVisualization, the hook-driven one over either hook
InitGlobes == InitMockGlobe \/ InitStaticApp \/ InitRemoteApp

NextGlobes == NextMockGlobe \/ NextStaticApp \/ NextRemoteApp

SpecGlobes == InitGlobes /\ [][NextGlobes]_vars

\* the remote hook renders, its intervals fire and its fetches settle
FairRemote ==
  /\ SpecRemote
  /\ WF_vars(RemoteRender)
  /\ WF_vars(RemoteDripTick)
  /\ WF_vars(PollTick)
  /\ WF_vars(FetchResult)

\* no component is mounted and no query is running
NothingMounted ==
  /\ StaticAbsent
  /\ RemoteAbsent
  /\ GlobeAbsent
  /\ FeedAbsent
  /\ ClientAbsent
  /\ mounted = FALSE
  /\ insertions = 0
  /\ warm = 0
  /\ nextId = 1
  /\ inserted = <<>>

\* transformEvents applied to every response up to MaxResponse events
\* transformEvent is applied to one event
TransformEvent ==
  /\ app = "transformEvent"
  /\ call.fn = "transformEvent" /\ ~returned.done
  /\ returned' = [done |-> TRUE, value |-> transformEvent(call.arg)]
  /\ UNCHANGED <<call, notCall>>

\* transformEvent under every combination of the mapped fields
InitMapping ==
  /\ app = "transformEvent"
  /\ NothingMounted
  /\ call \in [fn : {"transformEvent"}, arg : MappedEvents]
  /\ returned = [done |-> FALSE, value |-> <<>>]

NextMapping == TransformEvent

SpecMapping == InitMapping /\ [][NextMapping]_vars

InitTransform ==
  /\ app = "transform"
  /\ NothingMounted
  /\ call \in [fn : {"transformEvents"}, arg : Responses]
  /\ returned = [done |-> FALSE, value |-> <<>>]

NextTransform == TransformResponse

SpecTransform == InitTransform /\ [][NextTransform]_vars

\* generateTransaction under every combination of the explored draws
InitGenerate ==
  /\ app = "generate"
  /\ NothingMounted
  /\ call \in [fn : {"generateTransaction"}, arg : Draws]
  /\ returned = [done |-> FALSE, value |-> <<>>]

NextGenerate == GenerateTransaction

SpecGenerate == InitGenerate /\ [][NextGenerate]_vars

\* the remote data path: executeQuery and the remote hook
InitAdapter == InitClient \/ InitRemote
NextAdapter == NextClient \/ NextRemote
SpecAdapter == InitAdapter /\ [][NextAdapter]_vars

(* ======================================================================= *)
(* Claims                                                                  *)
(* ======================================================================= *)

\* no transaction id occurs twice in the list
DistinctIds(s) == \A i, j \in 1..Len(s) : i # j => s[i].id # s[j].id

\* C1: a drip tick, or the immediate trigger of the drip effect, that happens
\* while a pulled transaction is still waiting for its commit or a reset
\* pulls nothing: the pending transaction, the displayed list and the cycle
\* index stay as they are.
C1_TickWhilePendingIsNoOp ==
  [][(hookQ.pendingTransaction # NoTx /\ (DripTick \/ Render))
       => /\ hookQ'.pendingTransaction = hookQ.pendingTransaction
          /\ hookQ'.displayedTransactions = hookQ.displayedTransactions
          /\ currentIndexRef' = currentIndexRef]_vars

\* C2: a transaction committed twice appears once in displayedTransactions.
C2_CommitTwiceNoDuplicate ==
  /\ DistinctIds(hookQ.displayedTransactions)
  /\ DistinctIds(hook.displayedTransactions)

\* the n most recent entries of a history, newest first
MostRecent(history, n) ==
  [i \in 1..Min(Len(history), n) |-> history[Len(history) + 1 - i]]

\* C3: every displayed list stays within its bound (50 in the hooks and the
\* feed, 25 in the mock-driven globe) and holds exactly the most recently
\* inserted transactions, newest first, the older ones being dropped.
C3_DisplayBounded ==
  /\ Len(hook.displayedTransactions) <= 50
  /\ Len(remote.displayedTransactions) <= 50
  /\ Len(feed.transactions) <= 50
  /\ Len(globe.transactions) <= 25
  /\ app = "static" => hookQ.displayedTransactions = MostRecent(inserted, 50)
  /\ app = "remote" => remoteQ.displayedTransactions = MostRecent(inserted, 50)
  /\ app = "feed" =>
        feedQ.transactions = MostRecent(Reverse(InitialFeed) \o inserted, 50)
  /\ app = "mockGlobe" => globeQ.transactions = MostRecent(inserted, 25)

\* C3 witness: more than 50 insertions were made into the static hook's list
C3_Witness ==
  /\ app = "static"
  /\ Len(inserted) > 50
  /\ Len(hookQ.displayedTransactions) = 50
  /\ hookQ.displayedTransactions[50] = inserted[Len(inserted) - 49]

\* s is a prefix of t
IsPrefix(s, t) == Len(s) <= Len(t) /\ s = SubSeq(t, 1, Len(s))

\* C4: transactions enter the displayed list in the order in which they
\* became pending or were queued: in the static hook the k-th committed
\* transaction is the k-th pulled one, in the remote hook the queue is
\* dripped in the order of its appends.
C4_CommitOrderIsPullOrder ==
  /\ app = "static" => IsPrefix(inserted, pulled)
  /\ app = "remote" => IsPrefix(dripped, enqueued)

\* C5: in the hook-driven GlobeVisualization over the static hook, every
\* transaction that becomes pending is eventually committed into
\* displayedTransactions, unless the application unmounts first.
C5_PendingEventuallyCommitted ==
  \A n \in 1..MaxTx :
    (hookQ.pendingTransaction.id = n)
       ~> (n \in Ids(hookQ.displayedTransactions) \/ ~mounted)

\* C6: once the phase of a dot is 'settling', onSettled is invoked exactly
\* once: it is eventually invoked, and never a second time even when the
\* settling effect runs again on the same instance.
C6_SettledExactlyOnce ==
  /\ [](dot.calls <= 1)
  /\ (dot.mounted /\ dot.phase = "settling") ~> (dot.calls = 1)

\* C6 witness: the settling effect runs again on an instance that already
\* settled (the next transaction reached the instance without an unmount)
C6_Witness ==
  /\ dot.mounted /\ dot.phase = "settling" /\ dot.calls = 1
  /\ globe.pendingTx.transaction.id = 2

\* a timer or interval callback runs
TimerFires ==
  \/ DripTick \/ RemoteDripTick \/ PollTick
  \/ StartNewTransaction \/ OrbitTimeout \/ HighlightTimeout
  \/ DotOrbitTick \/ DotSettleTick
  \/ AddTransaction \/ FlagTimeout

\* C7: after a component is unmounted none of the timers or intervals it
\* started runs a callback.
C7_NoTimerAfterUnmount == [][~mounted => ~TimerFires]_vars

\* C8: when every outcome is transient (429, 5xx or a network TypeError),
\* executeQuery makes at most 3 HTTP attempts and then returns a failure.
C8_AtMostThreeAttempts ==
  client.transient =>
    /\ client.attempts <= 3
    /\ client.pc = "done" => client.result = "failure"

\* C8 as amended: at most MAX_RETRIES + 1 = 4 HTTP attempts (the first and
\* three retries), the call then returning a failure.
C8_AtMostFourAttempts ==
  client.transient =>
    /\ client.attempts <= 4
    /\ client.pc = "done" => client.result = "failure" /\ client.attempts \in {0, 4}

\* C8 witness: the fourth attempt failed and the call returned a failure
C8_Witness ==
  /\ client.transient /\ client.pc = "done"
  /\ client.attempts = 4 /\ client.result = "failure"

\* C9: before a re-attempt executeQuery sleeps Retry-After * 1000 ms after a
\* 429 with a Retry-After of that many seconds, and 1000 * (retryCount + 1)
\* ms (1000, 2000, 3000) in the other retried cases; the re-attempt is not
\* issued before that time has passed.
C9_RetryDelays ==
  /\ [](client.pc = "sleeping" =>
          IF client.status = 429 /\ client.retryAfter # NoHeader
          THEN client.retryAfter >= 0 => client.delay = client.retryAfter * 1000
          ELSE /\ client.delay = 1000 * (client.retryCount + 1)
               /\ client.delay \in {1000, 2000, 3000})
  /\ [][(client.attempts' > client.attempts /\ client.attempts > 0
           /\ client.delay # NaN)
          => now - client.sleptAt >= client.delay]_vars

\* C9 witness: a 429 with Retry-After: 2 was slept on for 2000 ms and the
\* re-attempt was issued
C9_Witness ==
  /\ client.pc = "fetching" /\ client.status = 429 /\ client.retryAfter = 2
  /\ client.delay = 2000 /\ client.retryCount = 1 /\ now = 2000

\* C10: executeQuery always terminates with an AlliumResult, never rejects,
\* and every re-attempt runs with the retry counter increased by one.
C10_TerminatesWithResult ==
  /\ <>(client.pc = "done")
  /\ [](~client.rejected)
  /\ [](client.pc = "done" => client.result \in {"success", "failure"})
  /\ [][(client.attempts' > client.attempts /\ client.attempts > 0)
          => client.retryCount' = client.retryCount + 1]_vars

\* C10 witness: the call returned after re-attempts that ended in an
\* exception which is not retried
C10_Witness ==
  /\ client.pc = "done" /\ client.retryCount > 0
  /\ client.status = 0 /\ client.result = "failure"

\* the awaited fetch has just settled with a response of status 404
PermanentSettles ==
  client.pc = "fetching" /\ client'.pc # "fetching" /\ client'.status = 404

\* C11: a non-2xx response whose status is neither 429 nor >= 500 makes
\* executeQuery return a failure after that single request, with no retry
\* and no delay.
C11_PermanentNotRetried ==
  [][PermanentSettles
       => /\ client'.pc = "done" /\ client'.result = "failure"
          /\ client'.attempts = client.attempts /\ now' = now]_vars

\* C11 as amended: such a response whose body text is read makes the call
\* return a failure at once; when reading the body throws a TypeError the
\* catch block treats it as a network error and retries after the linear
\* delay while retryCount < MAX_RETRIES; any other exception is a failure.
C11_PermanentNotRetriedIfBodyRead ==
  [][PermanentSettles
       => IF client'.body = "TypeError" /\ client.retryCount < 3
          THEN /\ client'.pc = "sleeping"
               /\ client'.delay = 1000 * (client.retryCount + 1)
          ELSE /\ client'.pc = "done" /\ client'.result = "failure"
               /\ client'.attempts = client.attempts /\ now' = now]_vars

\* C11 witness: the first request was answered 404 and the call returned
C11_Witness ==
  /\ client.pc = "done" /\ client.status = 404 /\ client.body = "text"
  /\ client.attempts = 1 /\ client.result = "failure" /\ now = 0

\* C12: without an API key executeQuery returns a failure without issuing a
\* network request, and the remote hook is in mock mode from its first
\* state on and never starts the polling interval (nor a fetch).
C12_NoKeyNoRequest ==
  ~configured =>
    /\ app = "client" =>
          /\ client.attempts = 0 /\ client.pc \in {"idle", "done"}
          /\ client.pc = "done" => client.result = "failure"
    /\ app = "remote" =>
          /\ remote.isUsingMockData /\ remoteQ.isUsingMockData
          /\ dripR.on > 0 => dripR.isUsingMockData
          /\ pollOn = 0
          /\ inflight.loading + inflight.poll = 0

\* C12 witness: without a key the remote hook has dripped a synthetic
\* transaction and polls nothing
C12_Witness ==
  /\ app = "remote" /\ ~configured /\ warm = 0
  /\ Len(inserted) > 0 /\ remote.displayedTransactions = <<MockTransaction(1)>>

\* a fetch of the mounted remote hook completes with a failure or throws
FetchFails ==
  /\ mounted
  /\ \E kind \in {"loading", "poll"} :
        \/ FetchSettled(kind, [result |-> "failure", data |-> <<>>])
        \/ FetchSettled(kind, [result |-> "exception", data |-> <<>>])

\* C13: in the remote hook a fetch that fails or throws leaves the hook in
\* mock mode (isUsingMockData true, error set), and while the hook is in
\* mock mode every drip tick emits one synthetic transaction as
\* currentTransaction and as the head of displayedTransactions.
C13_FailureFallsBackToMock ==
  /\ [][FetchFails => remoteQ'.isUsingMockData /\ remoteQ'.error]_vars
  /\ [][(RemoteDripTick /\ remote.isUsingMockData)
          => /\ remoteQ'.currentTransaction.id = nextId
             /\ nextId \notin {e.id : e \in Events}
             /\ nextId' = nextId + 1
             /\ Len(remoteQ'.displayedTransactions) > 0
             /\ remoteQ'.displayedTransactions[1] = remoteQ'.currentTransaction
             /\ Len(inserted') = Len(inserted) + 1]_vars

\* C13 witness: with a key, a fetch failed and the drip then emitted a
\* synthetic transaction
C13_Witness ==
  /\ app = "remote" /\ configured /\ warm = 0
  /\ remote.isUsingMockData /\ remote.error
  /\ Len(remote.displayedTransactions) > 0
  /\ remote.displayedTransactions[1] = remote.currentTransaction
  /\ remote.currentTransaction.id \notin {e.id : e \in Events}

\* C14: in the remote hook, with the drip interval firing and whatever the
\* fetches deliver, a transaction is eventually emitted to the displayed
\* list (as long as the hook stays mounted).
C14_DisplayEventuallyFilled ==
  <>(Len(remoteQ.displayedTransactions) > 0 \/ ~mounted)

\* C15: in GlobeVisualization over the remote hook a transaction is in
\* displayedTransactions only after its animation has settled: the
\* transaction that is orbiting or settling is not in the displayed list.
C15_DisplayedOnlyAfterSettled ==
  (app = "remoteApp" /\ globe.pendingTx # NoPending)
     => globe.pendingTx.transaction.id \notin Ids(remote.displayedTransactions)

\* C16: in the remote hook no transaction id is enqueued more than once
\* (repeats in successive fetches, in overlapping fetches or inside one
\* batch), so the ids in the queue and in displayedTransactions are
\* pairwise distinct.
C16_NoIdEnqueuedTwice ==
  app = "remote" =>
    /\ DistinctIds(enqueued)
    /\ DistinctIds(remoteQ.queue)
    /\ DistinctIds(remoteQ.displayedTransactions)

\* C17: for a successful response that is a bare array or an object with a
\* data array of n events the adapter produces n Transactions in the same
\* order, each with the id hash '-' action '-' last 8 characters of the
\* wallet, and the n ids are pairwise distinct.
C17_TransformIdsDistinct ==
  (app = "transform" /\ returned.done /\ call.arg.shape \in {"array", "object"}) =>
    LET events == call.arg.events
        txs == returned.value
        last8(w) == IF Len(w) <= 8 THEN w ELSE SubSeq(w, Len(w) - 7, Len(w))
    IN /\ Len(txs) = Len(events)
       /\ \A i \in 1..Len(events) :
            /\ txs[i].id = events[i].transaction_hash \o <<"-">> \o events[i].action
                              \o <<"-">> \o last8(events[i].wallet)
            /\ txs[i].transactionHash = events[i].transaction_hash
            /\ txs[i].walletAddress = events[i].wallet
       /\ \A i, j \in 1..Len(txs) : i # j => txs[i].id # txs[j].id

\* C18: a transaction returned by generateTransaction has collateralAsset
\* and collateralAmount set if and only if its action is 'liquidation', and
\* a collateralAsset that is set differs from asset.
C18_CollateralIffLiquidation ==
  (app = "generate" /\ returned.done) =>
    LET tx == returned.value
    IN /\ tx.action = "liquidation" <=> tx.collateralAsset # "undefined"
       /\ tx.action = "liquidation" <=> tx.collateralAmount > 0
       /\ tx.collateralAsset # "undefined" =>
            /\ tx.collateralAsset # tx.asset
            /\ \E i \in 1..8 : ASSETS[i] = tx.collateralAsset

\* C18 witness: a liquidation whose collateral draw, taken on the unfiltered
\* list, would have picked the asset itself
C18_Witness ==
  /\ app = "generate" /\ returned.done
  /\ returned.value.action = "liquidation"
  /\ returned.value.asset = "WBTC" /\ call.arg.collateral = 2 * (RANDOM_DEN \div 8)
  /\ returned.value.collateralAsset = "ETH"

\* C19: the amount of a transaction returned by generateTransaction lies in
\* the range configured for its asset, and collateralAmount, when present,
\* in the range configured for collateralAsset (amounts in hundredths).
C19_AmountsInRange ==
  (app = "generate" /\ returned.done) =>
    LET tx == returned.value
        lo(a) == ranges[a][1]
        hi(a) == ranges[a][2]
    IN /\ lo(tx.asset) <= tx.amount /\ tx.amount <= hi(tx.asset)
       /\ tx.collateralAsset # "undefined" =>
            /\ lo(tx.collateralAsset) <= tx.collateralAmount
            /\ tx.collateralAmount <= hi(tx.collateralAsset)

\* C19 witness: a liquidation with the largest draw for the amount and the
\* smallest for the collateral amount
C19_Witness ==
  /\ app = "generate" /\ returned.done
  /\ returned.value.asset = "cbETH" /\ returned.value.amount = 5000
  /\ returned.value.collateralAsset = "WBTC" /\ returned.value.collateralAmount = 1

\* C20: in the static hook the k-th transaction pulled since the start or
\* the last refetch is a copy of dataset record (k - 1) mod N, any two pulled
\* transactions have different ids (also those still held from before a
\* refetch), and the cycle index stays within 0..N - 1.
C20_PullsCycleThroughDataset ==
  app = "static" =>
    LET N == lendingTransactionsLength
        held == {hook.pendingTransaction, hookQ.pendingTransaction, pendingTxRef}
                  \cup {hook.displayedTransactions[i] :
                          i \in 1..Len(hook.displayedTransactions)}
                  \cup {hookQ.displayedTransactions[i] :
                          i \in 1..Len(hookQ.displayedTransactions)}
                  \cup {pulled[i] : i \in 1..Len(pulled)}
    IN /\ \A k \in 1..Len(pulled) : pulled[k].rec = (k - 1) % N
       /\ \A t, u \in held \ {NoTx} : t.id = u.id => t = u
       /\ \A k, l \in 1..Len(pulled) : pulled[k].id = pulled[l].id => k = l
       /\ currentIndexRef \in 0..(N - 1)
       /\ currentIndexRef = Len(pulled) % N

\* C20 witness: the cycle has wrapped around, record 0 was pulled a second
\* time
C20_Witness ==
  /\ app = "static"
  /\ Len(pulled) > lendingTransactionsLength
  /\ pulled[lendingTransactionsLength + 1].rec = 0
  /\ currentIndexRef = 1

\* C20 witness: pulls after a refetch start again at record 0
C20_WitnessRefetch ==
  /\ app = "static" /\ warm > 0
  /\ Len(pulled) = 2 /\ pulled[1].rec = 0 /\ pulled[2].rec = 1

\* C21: every Transaction produced by transformEvent has its action in
\* {supply, borrow, repay, withdraw}, its network in the declared Network
\* set and its asset in the declared Asset set; inputs that match no key
\* (case-insensitively) give supply, Ethereum and USDC.
C21_MappedIntoDeclaredSets ==
  (app = "transformEvent" /\ returned.done) =>
    LET tx == returned.value
    IN /\ tx.action \in {<<"supply">>, <<"borrow">>, <<"repay">>, <<"withdraw">>}
       /\ tx.network \in Network
       /\ tx.asset \in Asset
       /\ call.arg.action \in {<<"liquidate">>, <<"liquidation">>, <<"constructor">>}
            => tx.action = <<"supply">>
       /\ call.arg.chain = <<"polygon">> => tx.network = <<"Ethereum">>
       /\ call.arg.token_symbol = <<"LINK">> => tx.asset = <<"USDC">>

\* C21 without the two inputs on which it fails: the token PYUSD and an
\* action naming a property inherited from Object.prototype
C21_MappedExceptPyusd ==
  (/\ app = "transformEvent" /\ returned.done
   /\ call.arg.token_symbol # <<"PYUSD">>
   /\ call.arg.action # <<"constructor">>) => C21_MappedIntoDeclaredSets

\* C21 witness: a PYUSD event is given the asset PYUSD
C21_Witness ==
  /\ app = "transformEvent" /\ returned.done
  /\ call.arg.token_symbol = <<"PYUSD">> /\ call.arg.action = <<"supply">>
  /\ returned.value.asset = <<"PYUSD">>

\* what a step may do to the trail
TrailStep ==
  app \in GlobeApps =>
    /\ dot.trail \in 0..15 /\ dot'.trail \in 0..15
    /\ dot'.trail > dot.trail =>
         dot.orbitOn /\ dot'.trail = dot.trail + 1
    /\ (dot.orbitOn /\ dot' # dot /\ dot'.progress = dot.progress
           /\ dot'.mounted /\ dot'.phase = dot.phase) =>
         dot'.trail = (IF dot.trail < 15 THEN dot.trail + 1 ELSE 15)
    /\ (dot.settleOn /\ dot'.progress > dot.progress) =>
         dot'.trail = (IF dot.trail > 0 THEN dot.trail - 1 ELSE 0)

\* C22: the trail of OrbitingDot never holds more than 15 positions: an
\* orbit tick adds one position and cuts the trail to 15, a settle tick
\* removes one position until the trail is empty, and nothing else makes
\* the trail longer.
C22_TrailBounded == [][TrailStep]_vars

\* C22 witness: the first settle tick has taken one position off a full
\* trail
C22_Witness ==
  /\ app = "mockGlobe"
  /\ dot.settleOn /\ dot.progress = SETTLE_STEP
  /\ dot.trail = TRAIL_LENGTH - 1

\* the ids a transaction added during a behaviour can have
GlobeIds == {w + k : w \in {0, WarmGlobe}, k \in 1..(MaxTx + 1)}
FeedIds ==
  {INITIAL_TRANSACTIONS + w + k : w \in {0, Warm}, k \in 1..(MaxInserted + 1)}

\* handleDotSettled commits a transaction
GlobeCommits == app = "mockGlobe" /\ inserted' # inserted

\* C23: after each commit in GlobeVisualization newTxId is the id of the
\* committed transaction and that highlight is eventually cleared; in
\* TransactionFeed every id added to newTransactionIds is eventually
\* removed (while the component stays mounted).
C23_HighlightsExpire ==
  /\ [][GlobeCommits =>
         /\ globeQ'.newTxId = inserted'[Len(inserted')].id
         /\ globeQ'.transactions[1].id = globeQ'.newTxId]_vars
  /\ \A id \in GlobeIds :
       (app = "mockGlobe" /\ globeQ.newTxId = id)
          ~> (~mounted \/ globeQ.newTxId = 0)
  /\ \A id \in FeedIds :
       (app = "feed" /\ id \in feedQ.newTransactionIds)
          ~> (~mounted \/ id \notin feedQ.newTransactionIds)

\* C23 witness: the globe has committed a transaction and its highlight was
\* cleared again while the row is in the table
C23_Witness ==
  /\ app = "mockGlobe" /\ mounted /\ warm = 0
  /\ Len(globe.transactions) = 1 /\ globe.newTxId = 0
  /\ timers.highlight = 0

\* C23 witness: the feed shows two flagged rows at once
C23_WitnessFeed ==
  /\ app = "feed" /\ mounted
  /\ Cardinality(feed.newTransactionIds) = 2

\* getNextTransaction is called after the first transaction since the start
\* or the last refetch was admitted
LaterPull == app = "static" /\ pulled # <<>> /\ Len(pulled') > Len(pulled)

\* C24: in the static hook only the first pull happens without the drip
\* timer; after the first transaction was admitted a new transaction
\* becomes pending only in a drip tick, never as a consequence of
\* commitTransaction.
C24_LaterPullsOnlyOnTick == [][LaterPull => DripTick]_vars

\* C24 as far as it holds: commitTransaction itself pulls nothing, the pull
\* that follows it is made by the effect of the next render
C24_CommitItselfPullsNothing == [][LaterPull => (DripTick \/ Render)]_vars

\* what commitTransaction does to the static hook
CommitEffect ==
  /\ UNCHANGED <<hook, pendingTxRef, currentIndexRef, drip, pulled, nextId>>
  /\ IF pendingTxRef = NoTx
     THEN UNCHANGED hookQ
     ELSE /\ hookQ'.displayedTransactions[1] = pendingTxRef
          /\ \A i \in 2..Len(hookQ'.displayedTransactions) :
               hookQ'.displayedTransactions[i] = hookQ.displayedTransactions[i - 1]
          /\ Len(hookQ'.displayedTransactions) =
               Min(Len(hookQ.displayedTransactions) + 1, MAX_DISPLAYED_TRANSACTIONS)
          /\ hookQ'.pendingTransaction = NoTx
          /\ hookQ'.readyForNext
          /\ hookQ'.isLoading = hookQ.isLoading

\* C25: commitTransaction in the static hook changes nothing when no
\* transaction is pending (pendingTxRef is empty); when T is pending it
\* prepends T to displayedTransactions, empties the pending slot and sets
\* readyForNext; it never changes the cycle index or pulls a transaction.
C25_CommitFrame == [][CommitTransaction => CommitEffect]_vars

\* C25 witness: T was committed onto a full list and the hook has not
\* rendered yet
C25_Witness ==
  /\ app = "static"
  /\ pendingTxRef # NoTx /\ hookQ.pendingTransaction = NoTx
  /\ Len(hookQ.displayedTransactions) = MAX_DISPLAYED_TRANSACTIONS
  /\ hookQ.displayedTransactions[1] = pendingTxRef
  /\ hookQ.readyForNext

\* what refetch does to the static hook, and the first pull after it
RefetchEffect ==
  /\ Refetch =>
       /\ hookQ'.displayedTransactions = <<>>
       /\ hookQ'.pendingTransaction = NoTx
       /\ hookQ'.readyForNext
       /\ ~hookQ'.isLoading
       /\ currentIndexRef' = 0
  /\ (app = "static" /\ pulled = <<>> /\ pulled' # <<>>) =>
       /\ currentIndexRef = 0
       /\ Len(pulled') = 1 /\ pulled'[1].rec = 0
       /\ hookQ'.pendingTransaction = pulled'[1]

AnimationStarts ==
  /\ app \in {"staticApp", "remoteApp"}
  /\ globeQ.pendingTx = NoPending /\ globeQ'.pendingTx # NoPending

\* C27: in the hook-driven GlobeVisualization a published transaction is
\* animated exactly once; in particular the animation never starts for the
\* transaction that has just settled and is still highlighted (newTxId).
C27_NoSecondAnimation ==
  [][AnimationStarts => globeQ'.pendingTx.transaction.id # globeQ.newTxId]_vars

\* the steps pendingTx may take while the component is mounted: a timeout
\* is scheduled with each start and only then, it finds the transaction it
\* was scheduled for still orbiting, and the phase goes from orbiting to
\* settling to removal
OrbitStep ==
  (app \in GlobeApps /\ mounted) =>
    /\ timers.orbit \in {0, 1}
    /\ timers.orbit = 1 => globeQ.pendingTx.phase = "orbiting"
    /\ OrbitTimeout =>
         /\ globeQ.pendingTx.phase = "orbiting"
         /\ globeQ'.pendingTx = [globeQ.pendingTx EXCEPT !.phase = "settling"]
    /\ globeQ'.pendingTx # globeQ.pendingTx =>
         \/ /\ globeQ.pendingTx = NoPending
            /\ globeQ'.pendingTx.phase = "orbiting"
            /\ timers.orbit = 0 /\ timers'.orbit = 1
         \/ /\ globeQ.pendingTx.phase = "orbiting"
            /\ globeQ'.pendingTx = [globeQ.pendingTx EXCEPT !.phase = "settling"]
            /\ OrbitTimeout
         \/ /\ globeQ.pendingTx.phase = "settling"
            /\ globeQ'.pendingTx = NoPending

\* C28: in both GlobeVisualization versions the ORBIT_DURATION timeout
\* scheduled when T starts orbiting moves only T from 'orbiting' to
\* 'settling', never a later pending transaction, and the phase of a
\* pending transaction only goes orbiting, settling, removal.
C28_OrbitTimeoutMovesOwnTransaction == [][OrbitStep]_vars

\* C28 witness: the second transaction of the mock-driven globe is settling
\* and no orbit timeout is left
C28_Witness ==
  /\ app = "mockGlobe" /\ mounted /\ warm = 0
  /\ globeQ.pendingTx.phase = "settling" /\ globeQ.pendingTx.transaction.id = 2
  /\ timers.orbit = 0

\* C28 witness: the hook-driven globe, a transaction settling
C28_WitnessHook ==
  /\ app = "remoteApp" /\ mounted
  /\ globeQ.pendingTx.phase = "settling" /\ timers.orbit = 0
  /\ remoteQ.currentTransaction # globeQ.pendingTx.transaction

\* the exploration stops inserting while the hook still drips from its queue
QueueDripCut == insertions >= MaxInserted /\ ~dripR.isUsingMockData

\* C29: in the remote hook every transaction enqueued from a fetch is
\* eventually dripped into displayedTransactions under fair drip ticks,
\* also when a later fetch fails and the hook falls back to mock mode with
\* a non-empty queue (as long as the hook stays mounted).
C29_EnqueuedEventuallyDripped ==
  \A e \in Events :
    (app = "remote" /\ e.id \in Ids(remoteQ.queue))
       ~> (e.id \in Ids(dripped) \/ ~mounted \/ QueueDripCut)

\* C29 as far as it holds: while the hook is never in mock mode every
\* enqueued transaction is dripped
C29_DrippedUnlessMockMode ==
  \A e \in Events :
    (app = "remote" /\ e.id \in Ids(remoteQ.queue))
       ~> (e.id \in Ids(dripped) \/ ~mounted \/ QueueDripCut
             \/ remoteQ.isUsingMockData)

\* C30: in the remote hook at most one drip interval and at most one
\* polling interval are active at any time, and the polling interval is
\* active exactly when the hook is mounted and not in mock mode (the
\* rendered isUsingMockData); the drip interval is active while mounted.
C30_OneIntervalEach ==
  app \in RemoteApps =>
    /\ pollOn \in {0, 1} /\ dripR.on \in {0, 1}
    /\ pollOn = 1 <=> (mounted /\ ~remote.isUsingMockData)
    /\ dripR.on = 1 <=> mounted
    /\ dripR.on = 1 => dripR.isUsingMockData = remote.isUsingMockData

\* C30 witness: the hook went from live data to mock mode and back, and
\* polls again
C30_Witness ==
  /\ app = "remote" /\ mounted /\ configured
  /\ pollOn = 1 /\ ~remote.isUsingMockData
  /\ Len(remote.displayedTransactions) > 0
  /\ remote.displayedTransactions[1].id \notin {e.id : e \in Events}
  /\ remote.queue # <<>>

====
